---- MODULE Spec2Model ----
(***************************************************************************)
(* Verification model of the species candidate location finder             *)
(* (src/run.py).  The pipeline is sequential; each function of run.py is   *)
(* modelled as its own state machine over its own variables, and each has  *)
(* a specification in which the other functions' variables stay idle.      *)
(*                                                                         *)
(* Geographic coordinates are integers in units of 0.001 degree.           *)
(***************************************************************************)
EXTENDS Integers, Sequences, FiniteSets, TLC

VARIABLES
    \* generate_negatives
    pos_arr,        \* the positives passed to the call (order is irrelevant to min())
    n_samples,      \* target count
    attempt,        \* iterations of "for _ in range(n_samples * 100)" started so far
    draws,          \* pairs (lon, lat) drawn from the generator so far
    negatives,      \* accepted points, in order
    gn_pc,          \* "idle" | "loop" | "returned" | "raised"
    \* the mosaic and its affine transform (load_mosaic's result)
    mosaic,         \* [<<row, col>> -> embedding vector], rows 0..mosaic_h-1
    mosaic_h,
    mosaic_w,
    transform,      \* [west, north, px_w, px_h]: north-west corner and pixel size
    prob_map,       \* the probability raster, (mosaic_h, mosaic_w), in percent
    \* sample_embeddings
    coords,         \* the input coordinate list
    coord_idx,      \* coordinates consumed by the for loop
    embeddings,
    valid_coords,
    se_pc,          \* "idle" | "loop" | "returned"
    \* the batched prediction of run()
    model,          \* the fitted pipeline: [embedding vector -> P(class 1)], in percent
    batch_size,
    batch_start,    \* the loop variable i of "for i in range(0, n_pixels, batch_size)"
    probabilities,  \* the flat output array, index 0 stored at position 1
    written,        \* how many times each flat index has been assigned
    bp_pc,          \* "idle" | "loop" | "done"
    \* candidate extraction of run()
    cells,          \* zip(rows, cols): the selected raster cells
    candidates,     \* the features of candidates.geojson
    ce_pc,          \* "idle" | "start" | "selected" | "written"
    \* run(): the pipeline, its collections reduced to their lengths
    len_positives,        \* len(positives), the fetched occurrences
    len_valid_positives,  \* len(valid_positives) = len(X_pos)
    len_negatives,        \* len(negatives)
    len_X_neg,            \* len(X_neg) = len(valid_negatives)
    len_X_train,          \* len(X_train)
    n_neighbors,          \* k, the neighbour count of the classifier
    dir_created,          \* output_dir.mkdir has run
    files,                \* the output files written so far
    errors_logged,        \* the messages passed to logger.error
    exception,            \* the exception that ended the run, or "none"
    failed_at,            \* the step that raised it, or "none"
    run_pc,               \* the step about to run, or "returned", "crashed", "complete"
    \* fetch_occurrences
    len_results,    \* len(results)
    with_coords,    \* how many of the results have both coordinates set (and not 0)
    offset,
    requests,       \* requests sent so far
    last_batch,     \* len(batch) of the last response
    last_count,     \* data.get("count", 0) of the last response
    fo_pc,          \* "idle" | "loop" | "returned" | "raised"
    \* load_mosaic
    npy_exists,     \* the grid cells whose data file exists in the cache
    scales_exists,  \* the grid cells whose scales file exists in the cache
    cache_shape,    \* <<height, width>> of every tile of the cache
    tiles,          \* the keys (tlon, tlat) of the dict of loaded tiles
    tile_h,
    tile_w,
    unique_lons,
    unique_lats,
    block,          \* blocks (i, j) the stitching loops have visited, row by row
    lm_pc           \* "idle" | "scan" | "dims" | "stitch" | "returned" | "raised"

negVars == <<pos_arr, n_samples, attempt, draws, negatives, gn_pc>>

mosaicVars == <<mosaic, mosaic_h, mosaic_w, transform>>

sampVars == <<coords, coord_idx, embeddings, valid_coords, se_pc>>

predVars == <<model, batch_size, batch_start, probabilities, written, bp_pc>>

candVars == <<cells, candidates, ce_pc>>

runVars == <<len_positives, len_valid_positives, len_negatives, len_X_neg, len_X_train,
             n_neighbors, dir_created, files, errors_logged, exception, failed_at, run_pc>>

fetchVars == <<len_results, with_coords, offset, requests, last_batch, last_count, fo_pc>>

loadVars == <<npy_exists, scales_exists, cache_shape, tiles, tile_h, tile_w,
              unique_lons, unique_lats, block, lm_pc>>

vars == <<negVars, mosaicVars, prob_map, sampVars, predVars, candVars, runVars, fetchVars,
          loadVars>>

----------------------------------------------------------------------------
(* Helpers *)

Min2(a, b) == IF a <= b THEN a ELSE b

SetMin(S) == CHOOSE x \in S : \A y \in S : x <= y

----------------------------------------------------------------------------
(* The mosaic array and its transform, as load_mosaic returns them *)

NoMosaic == [p \in {} |-> 0]

NoTransform == [west |-> 0, north |-> 0, px_w |-> 1, px_h |-> 1]

MosaicIdle ==
    /\ mosaic = NoMosaic
    /\ mosaic_h = 0
    /\ mosaic_w = 0
    /\ transform = NoTransform

NoProbMap == [p \in {} |-> 0]

RasterIdle == prob_map = NoProbMap

Pixels(h, w) == (0..(h - 1)) \X (0..(w - 1))

\* rasterio.transform.rowcol(transform, lon, lat): the inverse transform, floored.
\* Rows count down from the north edge, columns up from the west edge.
RowCol(t, lon, lat) ==
    <<(t.north - lat) \div t.px_h, (lon - t.west) \div t.px_w>>

\* mosaic[row, col, :] with numpy's indexing: a negative index counts from the end
PixelAt(m, h, w, row, col) == m[<<row % h, col % w>>]

----------------------------------------------------------------------------
(* sample_embeddings (run.py 148-159) *)

\* largest mosaic sampled, in pixels, and the longest coordinate list
MaxH == 2
MaxW == 2
MaxCoords == 2

\* pixel size of the sampled mosaics, in lattice units
SampPx == 2

\* a mosaic whose every pixel holds a different vector
DistinctMosaic(h, w) == [p \in Pixels(h, w) |-> 1 + p[1] * w + p[2]]

\* coordinates just outside and just inside each edge of an h x w mosaic
EdgeLons(t, w) == {t.west - 1, t.west, t.west + t.px_w * w - 1, t.west + t.px_w * w}

EdgeLats(t, h) == {t.north + 1, t.north, t.north - t.px_h * h + 1, t.north - t.px_h * h}

SeqsUpTo(S, n) == UNION {[1..k -> S] : k \in 0..n}

\* 0 <= row < h and 0 <= col < w
InBoundsNoLower(rc, h, w) == rc[1] < h /\ rc[2] < w

InBounds(rc, h, w) == 0 <= rc[1] /\ rc[1] < h /\ 0 <= rc[2] /\ rc[2] < w

SampInit ==
    /\ mosaic_h \in 1..MaxH
    /\ mosaic_w \in 1..MaxW
    /\ mosaic = DistinctMosaic(mosaic_h, mosaic_w)
    /\ transform = [west |-> 0, north |-> SampPx * mosaic_h, px_w |-> SampPx, px_h |-> SampPx]
    /\ coords \in SeqsUpTo(EdgeLons(transform, mosaic_w) \X EdgeLats(transform, mosaic_h),
                           MaxCoords)
    /\ coord_idx = 0
    /\ embeddings = <<>>
    /\ valid_coords = <<>>
    /\ se_pc = "loop"

SampIdle ==
    /\ coords = <<>>
    /\ coord_idx = 0
    /\ embeddings = <<>>
    /\ valid_coords = <<>>
    /\ se_pc = "idle"

\* one iteration of "for lon, lat in coords": lines 154-157
SE_Step ==
    /\ se_pc = "loop"
    /\ coord_idx < Len(coords)
    /\ LET c == coords[coord_idx + 1]
           rc == RowCol(transform, c[1], c[2])
       IN  IF InBounds(rc, mosaic_h, mosaic_w)
           THEN /\ embeddings' = Append(embeddings,
                                        PixelAt(mosaic, mosaic_h, mosaic_w, rc[1], rc[2]))
                /\ valid_coords' = Append(valid_coords, c)
           ELSE UNCHANGED <<embeddings, valid_coords>>
    /\ coord_idx' = coord_idx + 1
    /\ UNCHANGED <<coords, se_pc>>

\* line 159
SE_Return ==
    /\ se_pc = "loop"
    /\ coord_idx = Len(coords)
    /\ se_pc' = "returned"
    /\ UNCHANGED <<coords, coord_idx, embeddings, valid_coords>>

----------------------------------------------------------------------------
(* The batched prediction loop of run() (run.py 210-222) *)

\* largest batch size tried (run() fixes batch_size = 15000, far above these
\* mosaics' pixel counts; the loop is the same for every value)
MaxBatch == 5

\* classifiers tried: predict_proba scores each row of its argument on its own
Classifiers ==
    { [v \in 0..(MaxH * MaxW) |-> 1 + ((v * 37) % 100)],
      [v \in 0..(MaxH * MaxW) |-> 100 - v],
      [v \in 0..(MaxH * MaxW) |-> 60] }

\* mosaic.reshape(-1, n_channels): row-major, flat index k is pixel (k div w, k mod w)
AllPixels(m, h, w) == [k \in 0..(h * w - 1) |-> m[<<k \div w, k % w>>]]

\* end = min(i + batch_size, n_pixels)
BatchEndShort(i, b, n) == Min2(i + b, n - 1)

BatchEnd(i, b, n) == Min2(i + b, n)

\* probabilities.reshape(mosaic_h, mosaic_w): row-major
Reshape(flat, h, w) == [p \in Pixels(h, w) |-> flat[p[1] * w + p[2] + 1]]

PredInit ==
    /\ mosaic_h \in 1..MaxH
    /\ mosaic_w \in 1..MaxW
    /\ mosaic = DistinctMosaic(mosaic_h, mosaic_w)
    /\ transform = NoTransform
    /\ model \in Classifiers
    /\ batch_size \in 1..MaxBatch
    /\ batch_start = 0
    /\ probabilities = [k \in 1..(mosaic_h * mosaic_w) |-> 0]
    /\ written = [k \in 0..(mosaic_h * mosaic_w - 1) |-> 0]
    /\ prob_map = NoProbMap
    /\ bp_pc = "loop"

PredIdle ==
    /\ model = <<>>
    /\ batch_size = 0
    /\ batch_start = 0
    /\ probabilities = <<>>
    /\ written = <<>>
    /\ bp_pc = "idle"

\* one iteration: lines 218-220
BP_Batch ==
    /\ bp_pc = "loop"
    /\ batch_start < mosaic_h * mosaic_w
    /\ LET n_pixels == mosaic_h * mosaic_w
           all_pixels == AllPixels(mosaic, mosaic_h, mosaic_w)
           end == BatchEnd(batch_start, batch_size, n_pixels)
           probs == [k \in batch_start..(end - 1) |-> model[all_pixels[k]]]
       IN  /\ probabilities' = [k \in 1..n_pixels |->
                                   IF batch_start <= k - 1 /\ k - 1 < end
                                   THEN probs[k - 1] ELSE probabilities[k]]
           /\ written' = [k \in 0..(n_pixels - 1) |->
                             IF batch_start <= k /\ k < end
                             THEN written[k] + 1 ELSE written[k]]
    /\ batch_start' = batch_start + batch_size
    /\ UNCHANGED <<model, batch_size, prob_map, bp_pc>>

\* the range is used up; line 222
BP_Reshape ==
    /\ bp_pc = "loop"
    /\ batch_start >= mosaic_h * mosaic_w
    /\ prob_map' = Reshape(probabilities, mosaic_h, mosaic_w)
    /\ bp_pc' = "done"
    /\ UNCHANGED <<model, batch_size, batch_start, probabilities, written>>

----------------------------------------------------------------------------
(* Candidate extraction of run() (run.py 243-277) *)

\* threshold = 0.6, in percent
threshold == 60
\* the cap on the number of candidates
MaxCandidates == 5000

\* raster shapes tried, and how many of a raster's cells reach the threshold
CandShapes == {<<2, 3>>, <<3, 4>>, <<4, 4>>, <<61, 82>>}

QualCounts ==
    0..12 \cup {MaxCandidates - 1, MaxCandidates, MaxCandidates + 1, MaxCandidates + 2}

\* a raster whose first q cells (row-major) alternate between the threshold
\* itself and a value above it, the others lying just below the threshold
RasterWith(h, w, q) ==
    [p \in Pixels(h, w) |->
        IF p[1] * w + p[2] < q
        THEN (IF (p[1] + p[2]) % 2 = 0 THEN threshold ELSE threshold + 15)
        ELSE threshold - 1]

\* rasterio.transform.xy(transform, row, col): the centre of the pixel
Xy(t, row, col) ==
    <<t.west + col * t.px_w + t.px_w \div 2, t.north - row * t.px_h - t.px_h \div 2>>

\* prob_map >= threshold
Qualifies(pm, p) == pm[p] >= threshold

\* np.where(prob_map >= threshold): the qualifying cells in row-major order
Where(pm, h, w) ==
    LET all == [k \in 1..(h * w) |-> <<(k - 1) \div w, (k - 1) % w>>]
        Q(p) == Qualifies(pm, p)
    IN  SelectSeq(all, Q)

\* np.random.choice(m, m - k, replace=False) can leave out any k of the m
\* indices.  The draws tried leave out k consecutive indices, at the start, in
\* the middle or at the end: the indices (a + 1)..(a + k) for these a
StartsTried(m, k) ==
    {a \in {0, 1, 2, 3, (m - k) \div 2, m - k - 3, m - k - 2, m - k - 1, m - k} :
        0 <= a /\ a <= m - k}

LeftOut(m, k) == {(a + 1)..(a + k) : a \in StartsTried(m, k)}

\* rows[idx], cols[idx] for the kept indices, taken in ascending order (the
\* order of idx is random in the code; the features are sorted afterwards)
Keep(sel, out) ==
    LET K(i) == i \notin out
        idx == SelectSeq([i \in 1..Len(sel) |-> i], K)
    IN  [i \in 1..Len(idx) |-> sel[idx[i]]]

\* len(rows) > 5000
OverCapGe(sel) == Len(sel) >= MaxCandidates + 2

OverCap(sel) == Len(sel) > MaxCandidates

\* candidates.sort(key=probability): a stable ascending sort
RECURSIVE SortByProbability(_, _)
SortByProbability(feats, levels) ==
    IF levels = {} THEN <<>>
    ELSE LET lo == SetMin(levels)
             AtLo(f) == f.probability = lo
         IN  SelectSeq(feats, AtLo) \o SortByProbability(feats, levels \ {lo})

Features(pm, t, sel) ==
    [i \in 1..Len(sel) |->
        [probability |-> pm[sel[i]], coordinates |-> Xy(t, sel[i][1], sel[i][2])]]

CandInit ==
    /\ \E shape \in CandShapes :
          /\ mosaic_h = shape[1]
          /\ mosaic_w = shape[2]
    /\ mosaic = NoMosaic
    /\ transform = [west |-> 0, north |-> SampPx * mosaic_h, px_w |-> SampPx, px_h |-> SampPx]
    /\ \E q \in QualCounts :
          /\ q <= mosaic_h * mosaic_w
          /\ prob_map = RasterWith(mosaic_h, mosaic_w, q)
    /\ cells = <<>>
    /\ candidates = <<>>
    /\ ce_pc = "start"

CandIdle ==
    /\ cells = <<>>
    /\ candidates = <<>>
    /\ ce_pc = "idle"

\* lines 245-250, at most 5000 cells qualifying: all of them are kept
CE_SelectAll ==
    /\ ce_pc = "start"
    /\ LET sel == Where(prob_map, mosaic_h, mosaic_w)
       IN  /\ ~OverCap(sel)
           /\ cells' = sel
    /\ ce_pc' = "selected"
    /\ UNCHANGED candidates

\* lines 245-250, more than 5000 cells qualifying: 5000 are drawn without
\* replacement
CE_Subsample ==
    /\ ce_pc = "start"
    /\ LET sel == Where(prob_map, mosaic_h, mosaic_w)
       IN  /\ OverCap(sel)
           /\ \E out \in LeftOut(Len(sel), Len(sel) - MaxCandidates) :
                 cells' = Keep(sel, out)
    /\ ce_pc' = "selected"
    /\ UNCHANGED candidates

\* lines 252-277: one feature per selected cell, sorted, written to
\* candidates.geojson
CE_Write ==
    /\ ce_pc = "selected"
    /\ LET feats == Features(prob_map, transform, cells)
       IN  candidates' =
               SortByProbability(feats, {feats[i].probability : i \in DOMAIN feats})
    /\ ce_pc' = "written"
    /\ UNCHANGED cells

----------------------------------------------------------------------------
(* run() (run.py 162-293): the sequence of its steps *)

\* most occurrences the lookup returns
MaxOcc == 6

\* "if len(positives) < 5"
MinOccurrences == 5
\* n_samples = len(valid_positives) * 5
NegPerPos == 5
\* k = min(10, len(X_train) // 2)
MaxK == 10

OutputFiles == <<"probability.tif", "candidates.geojson", "occurrences.geojson">>

TooFewLt4(n) == n < MinOccurrences - 1

TooFew(n) == n < MinOccurrences

\* "if not tiles" in load_mosaic, for found = (some cell has both its files)
NoTiles(found) == ~found

\* np.vstack([X_pos, X_neg]): an empty list of embeddings becomes an array of
\* shape (0,), which vstack sees as (1, 0).  Two such arrays stack to (2, 0); one
\* of them and an (n, n_channels) array do not stack.
VstackRaises(npos, nneg) == (npos = 0) # (nneg = 0)

VstackLen(npos, nneg) == IF npos = 0 /\ nneg = 0 THEN 2 ELSE npos + nneg

NeighbourCount(n) == Min2(MaxK, n \div 2)

\* the step whose output is OutputFiles[i]
WriteStep(i) == <<"tif", "cand", "occ">>[i]

AfterWriteSkip(i) == IF i >= 2 THEN "complete" ELSE WriteStep(i + 2)

AfterWrite(i) == IF i = 3 THEN "complete" ELSE WriteStep(i + 1)

RunInit ==
    /\ len_positives = 0
    /\ len_valid_positives = 0
    /\ len_negatives = 0
    /\ len_X_neg = 0
    /\ len_X_train = 0
    /\ n_neighbors = 0
    /\ dir_created = FALSE
    /\ files = {}
    /\ errors_logged = <<>>
    /\ exception = "none"
    /\ failed_at = "none"
    /\ run_pc = "fetch"

RunIdle ==
    /\ len_positives = 0
    /\ len_valid_positives = 0
    /\ len_negatives = 0
    /\ len_X_neg = 0
    /\ len_X_train = 0
    /\ n_neighbors = 0
    /\ dir_created = FALSE
    /\ files = {}
    /\ errors_logged = <<>>
    /\ exception = "none"
    /\ failed_at = "none"
    /\ run_pc = "idle"

Raise(exc) ==
    /\ exception' = exc
    /\ failed_at' = run_pc
    /\ run_pc' = "crashed"

\* lines 168-170: the lookups succeed
R_Fetch ==
    /\ run_pc = "fetch"
    /\ len_positives' \in 0..MaxOcc
    /\ run_pc' = "check"
    /\ UNCHANGED <<len_valid_positives, len_negatives, len_X_neg, len_X_train, n_neighbors,
                   dir_created, files, errors_logged, exception, failed_at>>

\* lines 41, 44, 59: the species is unknown or a request fails
R_FetchRaises ==
    /\ run_pc = "fetch"
    /\ \E exc \in {"ValueError", "HTTPError"} : Raise(exc)
    /\ UNCHANGED <<len_positives, len_valid_positives, len_negatives, len_X_neg,
                   len_X_train, n_neighbors, dir_created, files, errors_logged>>

\* lines 173-175
R_TooFewSilent ==
    /\ run_pc = "check"
    /\ TooFew(len_positives)
    /\ run_pc' = "returned"
    /\ UNCHANGED <<len_positives, len_valid_positives, len_negatives, len_X_neg,
                   len_X_train, n_neighbors, dir_created, files, errors_logged,
                   exception, failed_at>>

R_TooFew ==
    /\ run_pc = "check"
    /\ TooFew(len_positives)
    /\ errors_logged' = Append(errors_logged, "Need at least 5 occurrences")
    /\ run_pc' = "returned"
    /\ UNCHANGED <<len_positives, len_valid_positives, len_negatives, len_X_neg,
                   len_X_train, n_neighbors, dir_created, files, exception, failed_at>>

\* lines 179-180, and 112-113 when no cell of the cache has both its files
R_LoadMosaic ==
    /\ run_pc = "check"
    /\ ~TooFew(len_positives)
    /\ \E found \in BOOLEAN :
          IF NoTiles(found)
          THEN /\ exception' = "ValueError"
               /\ failed_at' = "load_mosaic"
               /\ run_pc' = "crashed"
          ELSE /\ run_pc' = "sample"
               /\ UNCHANGED <<exception, failed_at>>
    /\ UNCHANGED <<len_positives, len_valid_positives, len_negatives, len_X_neg,
                   len_X_train, n_neighbors, dir_created, files, errors_logged>>

\* lines 186-191: sample_embeddings keeps some of the positives,
\* generate_negatives returns at most 5 * len(valid_positives) points, and
\* sample_embeddings keeps some of those
R_Sample ==
    /\ run_pc = "sample"
    /\ len_valid_positives' \in 0..len_positives
    /\ len_negatives' \in 0..(len_valid_positives' * NegPerPos)
    /\ len_X_neg' \in {0, len_negatives' \div 2, len_negatives'}
    /\ run_pc' = "train"
    /\ UNCHANGED <<len_positives, len_X_train, n_neighbors, dir_created, files, errors_logged,
                   exception, failed_at>>

\* lines 195-206: stack, choose k, fit.  With no sample at all X_train has
\* shape (2, 0) and y_train is empty, which fit() refuses.
R_Train ==
    /\ run_pc = "train"
    /\ IF VstackRaises(len_valid_positives, len_X_neg)
       THEN /\ Raise("ValueError")
            /\ UNCHANGED <<len_X_train, n_neighbors>>
       ELSE /\ len_X_train' = VstackLen(len_valid_positives, len_X_neg)
            /\ n_neighbors' = NeighbourCount(len_X_train')
            /\ IF len_valid_positives + len_X_neg = 0
               THEN Raise("ValueError")
               ELSE /\ run_pc' = "predict"
                    /\ UNCHANGED <<exception, failed_at>>
    /\ UNCHANGED <<len_positives, len_valid_positives, len_negatives, len_X_neg,
                   dir_created, files, errors_logged>>

\* lines 210-227
R_Predict ==
    /\ run_pc = "predict"
    /\ run_pc' = "mkdir"
    /\ UNCHANGED <<len_positives, len_valid_positives, len_negatives, len_X_neg,
                   len_X_train, n_neighbors, dir_created, files, errors_logged, exception, failed_at>>

\* line 230
R_Mkdir ==
    /\ run_pc = "mkdir"
    /\ dir_created' = TRUE
    /\ run_pc' = WriteStep(1)
    /\ UNCHANGED <<len_positives, len_valid_positives, len_negatives, len_X_neg,
                   len_X_train, n_neighbors, files, errors_logged, exception, failed_at>>

\* lines 233-240, 243-277, 280-288: the three files, one after the other
R_WriteFile ==
    /\ \E i \in 1..3 :
          /\ run_pc = WriteStep(i)
          /\ files' = files \cup {OutputFiles[i]}
          /\ run_pc' = AfterWrite(i)
    /\ UNCHANGED <<len_positives, len_valid_positives, len_negatives, len_X_neg,
                   len_X_train, n_neighbors, dir_created, errors_logged, exception, failed_at>>

\* mkdir, rasterio.open, open or a write fails (no space, no permission):
\* nothing in run() catches it, and what was written stays
R_WriteRaises ==
    /\ run_pc \in {"mkdir", "tif", "cand", "occ"}
    /\ Raise("OSError")
    /\ UNCHANGED <<len_positives, len_valid_positives, len_negatives, len_X_neg,
                   len_X_train, n_neighbors, dir_created, files, errors_logged>>

RunTerminal == run_pc \in {"returned", "crashed", "complete"}

----------------------------------------------------------------------------
(* fetch_occurrences (run.py 48-69) *)

\* most requests followed (the loop itself has no bound)
MaxRequests == 3

\* "limit": 300 and offset += 300
PageSize == 300

\* what a response can carry: the length of "results" (a missing key reads as
\* the empty list) and "count" (a missing key reads as 0)
BatchSizes == {0, 1, PageSize}

Counts == {0, 1, 2, PageSize, PageSize + 1, 2 * PageSize, 2 * PageSize + 1}

\* len(results) >= data.get("count", 0)
ReachedGt(n, count) == n > count

Reached(n, count) == n >= count

FetchInit ==
    /\ len_results = 0
    /\ with_coords = 0
    /\ offset = 0
    /\ requests = 0
    /\ last_batch = 0
    /\ last_count = 0
    /\ fo_pc = "loop"

FetchIdle ==
    /\ len_results = 0
    /\ with_coords = 0
    /\ offset = 0
    /\ requests = 0
    /\ last_batch = 0
    /\ last_count = 0
    /\ fo_pc = "idle"

\* one iteration of "while True" whose request succeeds: lines 54-67
FO_Page ==
    /\ fo_pc = "loop"
    /\ requests < MaxRequests
    /\ \E batch \in BatchSizes, count \in Counts, good \in {0, 1} :
          /\ good <= batch
          /\ requests' = requests + 1
          /\ last_batch' = batch
          /\ last_count' = count
          /\ IF batch = 0
             THEN /\ fo_pc' = "returned"
                  /\ UNCHANGED <<len_results, with_coords, offset>>
             ELSE /\ len_results' = len_results + batch
                  /\ with_coords' = with_coords + (IF good = 1 THEN batch ELSE batch - 1)
                  /\ IF Reached(len_results', count)
                     THEN /\ fo_pc' = "returned"
                          /\ UNCHANGED offset
                     ELSE /\ fo_pc' = "loop"
                          /\ offset' = offset + PageSize

\* resp.raise_for_status() raises: line 59
FO_HttpError ==
    /\ fo_pc = "loop"
    /\ requests < MaxRequests
    /\ requests' = requests + 1
    /\ fo_pc' = "raised"
    /\ UNCHANGED <<len_results, with_coords, offset, last_batch, last_count>>

----------------------------------------------------------------------------
(* load_mosaic (run.py 91-145) *)

\* the bounding box is covered by (MaxTileLon + 1) x (MaxTileLat + 1) grid cells
MaxTileLon == 1
MaxTileLat == 1

\* step = 0.1 degree
step == 100

\* tile_lons, tile_lats: lines 98-99 and 104
TileLons == {a * step + step \div 2 : a \in 0..MaxTileLon}

TileLats == {b * step + step \div 2 : b \in 0..MaxTileLat}

GridCells == TileLons \X TileLats

\* tile shapes tried; every tile of a cache has the same shape (line 115)
TileShapes == {<<1, 2>>, <<2, 1>>}

\* the scaled data of the tile of cell key, at its pixel (r, c): each tile's
\* values are its own, and none equals the zero vector
TileData(key, r, c) == <<key[1], key[2], r, c>>

ZeroVec == <<>>

\* sorted(S)
RECURSIVE SortedAsc(_)
SortedAsc(S) ==
    IF S = {} THEN <<>>
    ELSE LET lo == SetMin(S) IN <<lo>> \o SortedAsc(S \ {lo})

Reverse(s) == [i \in 1..Len(s) |-> s[Len(s) + 1 - i]]

\* lines 120-121
UniqueLons(ts) == SortedAsc({t[1] : t \in ts})

UniqueLatsAscending(ts) == SortedAsc({t[2] : t \in ts})

UniqueLats(ts) == Reverse(SortedAsc({t[2] : t \in ts}))

\* rasterio.transform.from_bounds(west, south, east, north, width, height)
FromBounds(west, south, east, north, width, height) ==
    [west |-> west, north |-> north,
     px_w |-> (east - west) \div width, px_h |-> (north - south) \div height]

LoadInit ==
    /\ \E both \in SUBSET GridCells,
          a \in {{}} \cup {{c} : c \in GridCells},
          b \in {{}} \cup {{c} : c \in GridCells} :
          /\ a \cap both = {} /\ b \cap both = {} /\ a \cap b = {}
          /\ npy_exists = both \cup a
          /\ scales_exists = both \cup b
    /\ cache_shape \in TileShapes
    /\ tiles = {}
    /\ tile_h = 0
    /\ tile_w = 0
    /\ unique_lons = <<>>
    /\ unique_lats = <<>>
    /\ block = 0
    /\ mosaic = NoMosaic
    /\ mosaic_h = 0
    /\ mosaic_w = 0
    /\ transform = NoTransform
    /\ lm_pc = "scan"

LoadIdle ==
    /\ npy_exists = {}
    /\ scales_exists = {}
    /\ cache_shape = <<0, 0>>
    /\ tiles = {}
    /\ tile_h = 0
    /\ tile_w = 0
    /\ unique_lons = <<>>
    /\ unique_lats = <<>>
    /\ block = 0
    /\ lm_pc = "idle"

\* lines 101-110: load every cell that has both files
LM_Scan ==
    /\ lm_pc = "scan"
    /\ tiles' = {c \in GridCells : c \in npy_exists /\ c \in scales_exists}
    /\ lm_pc' = "dims"
    /\ UNCHANGED <<npy_exists, scales_exists, cache_shape, tile_h, tile_w,
                   unique_lons, unique_lats, block, mosaicVars>>

\* lines 112-113
LM_NoTiles ==
    /\ lm_pc = "dims"
    /\ tiles = {}
    /\ lm_pc' = "raised"
    /\ UNCHANGED <<npy_exists, scales_exists, cache_shape, tiles, tile_h, tile_w,
                   unique_lons, unique_lats, block, mosaicVars>>

\* lines 116-126: tile shape, sorted coordinates, the all-zero mosaic
LM_Dims ==
    /\ lm_pc = "dims"
    /\ tiles # {}
    /\ tile_h' = cache_shape[1]
    /\ tile_w' = cache_shape[2]
    /\ unique_lons' = UniqueLons(tiles)
    /\ unique_lats' = UniqueLats(tiles)
    /\ mosaic_h' = Len(unique_lats') * tile_h'
    /\ mosaic_w' = Len(unique_lons') * tile_w'
    /\ mosaic' = [p \in Pixels(mosaic_h', mosaic_w') |-> ZeroVec]
    /\ block' = 0
    /\ lm_pc' = "stitch"
    /\ UNCHANGED <<npy_exists, scales_exists, cache_shape, tiles, transform>>

\* lines 128-133: one pass of the inner loop, block (i, j)
LM_Stitch ==
    /\ lm_pc = "stitch"
    /\ block < Len(unique_lats) * Len(unique_lons)
    /\ LET i == block \div Len(unique_lons)
           j == block % Len(unique_lons)
           key == <<unique_lons[j + 1], unique_lats[i + 1]>>
           h == cache_shape[1]
           w == cache_shape[2]
       IN  IF key \in tiles
           THEN mosaic' =
                   [p \in DOMAIN mosaic |->
                       IF /\ i * tile_h <= p[1] /\ p[1] < i * tile_h + h
                          /\ j * tile_w <= p[2] /\ p[2] < j * tile_w + w
                       THEN TileData(key, p[1] - i * tile_h, p[2] - j * tile_w)
                       ELSE mosaic[p]]
           ELSE UNCHANGED mosaic
    /\ block' = block + 1
    /\ UNCHANGED <<npy_exists, scales_exists, cache_shape, tiles, tile_h, tile_w,
                   unique_lons, unique_lats, mosaic_h, mosaic_w, transform, lm_pc>>

\* lines 136-145
LM_Return ==
    /\ lm_pc = "stitch"
    /\ block = Len(unique_lats) * Len(unique_lons)
    /\ LET mosaic_min_lon == unique_lons[1]
           mosaic_max_lat == unique_lats[1] + step
       IN  transform' = FromBounds(mosaic_min_lon,
                                   mosaic_max_lat - step * Len(unique_lats),
                                   mosaic_min_lon + step * Len(unique_lons),
                                   mosaic_max_lat, mosaic_w, mosaic_h)
    /\ lm_pc' = "returned"
    /\ UNCHANGED <<npy_exists, scales_exists, cache_shape, tiles, tile_h, tile_w,
                   unique_lons, unique_lats, block, mosaic, mosaic_h, mosaic_w>>

----------------------------------------------------------------------------
(* generate_negatives (run.py 72-88) *)

\* bounds of the lattice the bounding box spans: bbox = (0, 0, MaxLon, MaxLat)
MaxLon == 6
MaxLat == 1
\* largest target count tried
MaxN == 2

\* min_dist = 0.005 degree
min_dist == 5
\* the attempt budget is n_samples * 100
BudgetFactor == 100

\* points np.random.uniform(min, max) can return on the lattice
BboxPoints == (0..MaxLon) \X (0..MaxLat)

\* positive sets tried: any subset of these points (the empty set included)
PosCandidates == {<<0, 0>>, <<1, MaxLat>>, <<MaxLon, MaxLat>>}

\* (pos_arr[:, 0] - lon)**2 + (pos_arr[:, 1] - lat)**2, for one row of pos_arr
DistSq(p, lon, lat) == (p[1] - lon) * (p[1] - lon) + (p[2] - lat) * (p[2] - lat)

\* dists.min() > min_dist: sqrt is monotone, so the minimum of the distances
\* exceeds min_dist exactly when the minimum of their squares exceeds min_dist^2
AcceptedGe(pos, lon, lat) ==
    SetMin({DistSq(p, lon, lat) : p \in pos}) >= min_dist * min_dist

Accepted(pos, lon, lat) ==
    SetMin({DistSq(p, lon, lat) : p \in pos}) > min_dist * min_dist

\* len(negatives) >= n_samples
FullGt(neg, n) == Len(neg) > n

Full(neg, n) == Len(neg) >= n

Budget(n) == n * BudgetFactor

NegInit ==
    /\ pos_arr \in SUBSET PosCandidates
    /\ n_samples \in 0..MaxN
    /\ attempt = 0
    /\ draws = 0
    /\ negatives = <<>>
    /\ gn_pc = "loop"

NegIdle ==
    /\ pos_arr = {}
    /\ n_samples = 0
    /\ attempt = 0
    /\ draws = 0
    /\ negatives = <<>>
    /\ gn_pc = "idle"

\* one iteration that draws: lines 83-87.  With an empty positives list
\* pos_arr is a 1-d array and pos_arr[:, 0] raises IndexError (line 85).
GN_Draw ==
    /\ gn_pc = "loop"
    /\ attempt < Budget(n_samples)
    /\ ~Full(negatives, n_samples)
    /\ \E lon \in 0..MaxLon, lat \in 0..MaxLat :
          /\ attempt' = attempt + 1
          /\ draws' = draws + 1
          /\ IF pos_arr = {}
             THEN /\ gn_pc' = "raised"
                  /\ UNCHANGED negatives
             ELSE /\ gn_pc' = "loop"
                  /\ negatives' = IF Accepted(pos_arr, lon, lat)
                                  THEN Append(negatives, <<lon, lat>>)
                                  ELSE negatives
    /\ UNCHANGED <<pos_arr, n_samples>>

\* lines 81-82: the iteration that finds the list full breaks without drawing
GN_Break ==
    /\ gn_pc = "loop"
    /\ attempt < Budget(n_samples)
    /\ Full(negatives, n_samples)
    /\ gn_pc' = "returned"
    /\ UNCHANGED <<pos_arr, n_samples, attempt, draws, negatives>>

\* range(n_samples * 100) is used up: line 88
GN_Exhaust ==
    /\ gn_pc = "loop"
    /\ attempt >= Budget(n_samples)
    /\ gn_pc' = "returned"
    /\ UNCHANGED <<pos_arr, n_samples, attempt, draws, negatives>>

----------------------------------------------------------------------------
(* Specifications: one per function, the other functions' variables idle *)

InitNegSpec ==
    /\ NegInit
    /\ SampIdle
    /\ PredIdle
    /\ CandIdle
    /\ RunIdle
    /\ FetchIdle
    /\ LoadIdle
    /\ MosaicIdle
    /\ RasterIdle

NegOthers == <<sampVars, predVars, candVars, runVars, fetchVars, loadVars, mosaicVars, prob_map>>

NextNegSpec ==
    \/ GN_Draw /\ UNCHANGED NegOthers
    \/ GN_Break /\ UNCHANGED NegOthers
    \/ GN_Exhaust /\ UNCHANGED NegOthers

SpecNeg == InitNegSpec /\ [][NextNegSpec]_vars

\* the interpreter runs the function to its end
FairSpecNeg == SpecNeg /\ WF_vars(NextNegSpec)

InitSampSpec ==
    /\ SampInit
    /\ NegIdle
    /\ PredIdle
    /\ CandIdle
    /\ RunIdle
    /\ FetchIdle
    /\ LoadIdle
    /\ RasterIdle

SampOthers == <<negVars, predVars, candVars, runVars, fetchVars, loadVars, mosaicVars, prob_map>>

NextSampSpec ==
    \/ SE_Step /\ UNCHANGED SampOthers
    \/ SE_Return /\ UNCHANGED SampOthers

SpecSamp == InitSampSpec /\ [][NextSampSpec]_vars

InitPredSpec ==
    /\ PredInit
    /\ NegIdle
    /\ SampIdle
    /\ CandIdle
    /\ RunIdle
    /\ FetchIdle
    /\ LoadIdle

PredOthers == <<negVars, sampVars, candVars, runVars, fetchVars, loadVars, mosaicVars>>

NextPredSpec ==
    \/ BP_Batch /\ UNCHANGED PredOthers
    \/ BP_Reshape /\ UNCHANGED PredOthers

SpecPred == InitPredSpec /\ [][NextPredSpec]_vars

InitCandSpec ==
    /\ CandInit
    /\ NegIdle
    /\ SampIdle
    /\ PredIdle
    /\ RunIdle
    /\ FetchIdle
    /\ LoadIdle

CandOthers == <<negVars, sampVars, predVars, runVars, fetchVars, loadVars, mosaicVars, prob_map>>

NextCandSpec ==
    \/ CE_SelectAll /\ UNCHANGED CandOthers
    \/ CE_Subsample /\ UNCHANGED CandOthers
    \/ CE_Write /\ UNCHANGED CandOthers

SpecCand == InitCandSpec /\ [][NextCandSpec]_vars

InitRunSpec ==
    /\ RunInit
    /\ NegIdle
    /\ SampIdle
    /\ PredIdle
    /\ CandIdle
    /\ FetchIdle
    /\ LoadIdle
    /\ MosaicIdle
    /\ RasterIdle

RunOthers == <<negVars, sampVars, predVars, candVars, fetchVars, loadVars, mosaicVars, prob_map>>

NextRunSpec ==
    \/ R_Fetch /\ UNCHANGED RunOthers
    \/ R_FetchRaises /\ UNCHANGED RunOthers
    \/ R_TooFew /\ UNCHANGED RunOthers
    \/ R_LoadMosaic /\ UNCHANGED RunOthers
    \/ R_Sample /\ UNCHANGED RunOthers
    \/ R_Train /\ UNCHANGED RunOthers
    \/ R_Predict /\ UNCHANGED RunOthers
    \/ R_Mkdir /\ UNCHANGED RunOthers
    \/ R_WriteFile /\ UNCHANGED RunOthers
    \/ R_WriteRaises /\ UNCHANGED RunOthers

SpecRun == InitRunSpec /\ [][NextRunSpec]_vars

InitFetchSpec ==
    /\ FetchInit
    /\ NegIdle
    /\ SampIdle
    /\ PredIdle
    /\ CandIdle
    /\ RunIdle
    /\ LoadIdle
    /\ MosaicIdle
    /\ RasterIdle

FetchOthers == <<negVars, sampVars, predVars, candVars, runVars, loadVars, mosaicVars, prob_map>>

NextFetchSpec ==
    \/ FO_Page /\ UNCHANGED FetchOthers
    \/ FO_HttpError /\ UNCHANGED FetchOthers

SpecFetch == InitFetchSpec /\ [][NextFetchSpec]_vars

InitLoadSpec ==
    /\ LoadInit
    /\ NegIdle
    /\ SampIdle
    /\ PredIdle
    /\ CandIdle
    /\ RunIdle
    /\ FetchIdle
    /\ RasterIdle

LoadOthers == <<negVars, sampVars, predVars, candVars, runVars, fetchVars, prob_map>>

NextLoadSpec ==
    \/ LM_Scan /\ UNCHANGED LoadOthers
    \/ LM_NoTiles /\ UNCHANGED LoadOthers
    \/ LM_Dims /\ UNCHANGED LoadOthers
    \/ LM_Stitch /\ UNCHANGED LoadOthers
    \/ LM_Return /\ UNCHANGED LoadOthers

SpecLoad == InitLoadSpec /\ [][NextLoadSpec]_vars


\* the program as a whole is one call of run()
Spec == SpecRun

----------------------------------------------------------------------------
\* C1: every point generate_negatives accepts, hence every point it returns,
\* lies at squared distance > min_dist^2 from every positive of the call
C1_Separation ==
    \A k \in DOMAIN negatives : \A p \in pos_arr :
        DistSq(p, negatives[k][1], negatives[k][2]) > min_dist * min_dist

\* a call with two positives has returned an accepted point, while some lattice
\* point at distance exactly min_dist from a positive was available
C1_Witness ==
    /\ gn_pc = "returned"
    /\ Cardinality(pos_arr) >= 2
    /\ Len(negatives) >= 1
    /\ \E q \in BboxPoints, p \in pos_arr : DistSq(p, q[1], q[2]) = min_dist * min_dist

GN_Terminated == gn_pc \in {"returned", "raised"}

\* C2: generate_negatives terminates; it makes at most 100 * n_samples draws,
\* makes no draw once n_samples points are accepted, returns at most n_samples
\* points, and returns fewer only after using all 100 * n_samples draws
C2_BoundedTermination ==
    /\ [](/\ draws <= Budget(n_samples)
          /\ Len(negatives) <= n_samples
          /\ (gn_pc = "returned" /\ Len(negatives) < n_samples
                => draws = Budget(n_samples)))
    /\ [][Len(negatives) >= n_samples => draws' = draws]_vars
    /\ <>GN_Terminated

\* a call that returned fewer points than asked after using its whole budget
C2_Witness ==
    /\ gn_pc = "returned"
    /\ n_samples = MaxN
    /\ Len(negatives) = 1
    /\ draws = Budget(n_samples)

\* a call that stopped early with the list full
C2_WitnessFull ==
    /\ gn_pc = "returned"
    /\ n_samples >= 1
    /\ Len(negatives) = n_samples
    /\ draws < Budget(n_samples)

----------------------------------------------------------------------------
\* C3: sample_embeddings returns the input coordinates whose pixel lies inside
\* the mosaic, in input order, and with each the mosaic vector at its pixel;
\* the two results have the same length
C3_ParallelFilter ==
    se_pc = "returned" =>
        LET Inside(c) ==
                LET row == (transform.north - c[2]) \div transform.px_h
                    col == (c[1] - transform.west) \div transform.px_w
                IN  row \in 0..(mosaic_h - 1) /\ col \in 0..(mosaic_w - 1)
        IN  /\ valid_coords = SelectSeq(coords, Inside)
            /\ Len(embeddings) = Len(valid_coords)
            /\ \A i \in DOMAIN valid_coords :
                  embeddings[i] =
                      mosaic[<<(transform.north - valid_coords[i][2]) \div transform.px_h,
                               (valid_coords[i][1] - transform.west) \div transform.px_w>>]

\* a call that dropped a coordinate north-west of the mosaic (row -1, col -1)
\* and kept a later one
C3_Witness ==
    /\ se_pc = "returned"
    /\ Len(coords) = 2
    /\ RowCol(transform, coords[1][1], coords[1][2]) = <<-1, -1>>
    /\ Len(valid_coords) = 1
    /\ valid_coords[1] = coords[2]

----------------------------------------------------------------------------
\* C4: when the batch loop is done, every flat index has been assigned exactly
\* once, and every cell of the reshaped map holds the classifier's probability
\* for the mosaic pixel at that cell, whatever the batch size
C4_BatchingEquivalence ==
    bp_pc = "done" =>
        /\ \A k \in 0..(mosaic_h * mosaic_w - 1) : written[k] = 1
        /\ \A r \in 0..(mosaic_h - 1), c \in 0..(mosaic_w - 1) :
              prob_map[<<r, c>>] = model[mosaic[<<r, c>>]]

\* a finished run over a 2 x 2 mosaic in batches of 3: one full chunk and a
\* final partial chunk
C4_Witness ==
    /\ bp_pc = "done"
    /\ mosaic_h = 2 /\ mosaic_w = 2
    /\ batch_size = 3
    /\ batch_start = 6

----------------------------------------------------------------------------
\* C5: candidates.geojson holds at most 5000 features; each is the centre and the
\* probability of a raster cell at or above the threshold, no cell appears
\* twice, and the count is min(5000, number of qualifying cells)
C5_CandidateCap ==
    ce_pc = "written" =>
        LET qualifying == {p \in Pixels(mosaic_h, mosaic_w) : prob_map[p] >= threshold}
            cellOf(f) == RowCol(transform, f.coordinates[1], f.coordinates[2])
        IN  /\ Len(candidates) <= MaxCandidates
            /\ \A i \in DOMAIN candidates :
                  /\ cellOf(candidates[i]) \in qualifying
                  /\ candidates[i].probability = prob_map[cellOf(candidates[i])]
            /\ Cardinality({cellOf(candidates[i]) : i \in DOMAIN candidates})
                  = Len(candidates)
            /\ Len(candidates) = Min2(MaxCandidates, Cardinality(qualifying))

\* a written collection drawn from a raster with 5001 qualifying cells
C5_Witness ==
    /\ ce_pc = "written"
    /\ Cardinality({p \in DOMAIN prob_map : prob_map[p] >= threshold}) = MaxCandidates + 1
    /\ Len(candidates) = MaxCandidates

\* a written, empty collection from a raster wholly below the threshold
C5_WitnessEmpty ==
    /\ ce_pc = "written"
    /\ \A p \in DOMAIN prob_map : prob_map[p] < threshold
    /\ candidates = <<>>

----------------------------------------------------------------------------
\* the run ended because the lookup gave fewer than 5 occurrences
EndedTooFew == RunTerminal /\ failed_at # "fetch" /\ len_positives < MinOccurrences

\* the run ended because no tile was found
EndedNoTiles == RunTerminal /\ failed_at = "load_mosaic"

NoOutput == ~dir_created /\ files = {}

C6_WitnessTooFew ==
    /\ EndedTooFew
    /\ len_positives = MinOccurrences - 1

----------------------------------------------------------------------------
AllFiles == {OutputFiles[i] : i \in 1..3}

\* C7 as stated: a run ends with all three output files written or with none
C7_AllOrNothing == RunTerminal => files = {} \/ files = AllFiles

\* C7 as amended: a run that completes has written all three files; a run that
\* ends before the write phase has written none; an exception in the write
\* phase leaves the files written before it, so the files present are always
\* the first n of probability.tif, candidates.geojson, occurrences.geojson
C7_PrefixWritten ==
    /\ \E n \in 0..3 : files = {OutputFiles[i] : i \in 1..n}
    /\ run_pc = "complete" => files = AllFiles
    /\ RunTerminal /\ run_pc # "complete" /\ failed_at \notin {"cand", "occ"} => files = {}
    /\ failed_at = "cand" => files = {OutputFiles[1]}
    /\ failed_at = "occ" => files = {OutputFiles[1], OutputFiles[2]}

\* a run that ended in the write phase with only some of the files written
C7_Witness ==
    /\ run_pc = "crashed"
    /\ failed_at = "occ"
    /\ files = {"probability.tif", "candidates.geojson"}

----------------------------------------------------------------------------
\* C8 as stated: whenever an output file is written, at least 5 occurrences
\* are valid, that is retained by sample_embeddings
C8_ValidAtLeastFive == files # {} => len_valid_positives >= MinOccurrences

\* C8 as amended: whenever an output file is written, at least 5 occurrences
\* were fetched; a run with fewer than 5 fetched occurrences writes nothing
C8_FetchedAtLeastFive ==
    /\ files # {} => len_positives >= MinOccurrences
    /\ RunTerminal /\ len_positives < MinOccurrences => NoOutput

\* a completed run in which 5 occurrences were fetched and 1 was valid
C8_Witness ==
    /\ run_pc = "complete"
    /\ len_positives = MinOccurrences
    /\ len_valid_positives = 1
    /\ files = AllFiles

----------------------------------------------------------------------------
\* C9 as stated: when fetch_occurrences returns, the records retrieved are at
\* least as many as the count the last response reported
C9_ReachesReportedTotal == fo_pc = "returned" => len_results >= last_count

\* C9 as amended: the loop goes on, the offset advancing by 300 per request,
\* exactly while each response carries a non-empty batch and reports a count
\* above the records retrieved; it returns on the first response that carries
\* an empty batch or reports a count no greater than the records retrieved
C9_StopsOnEmptyOrTotal ==
    /\ fo_pc = "returned" =>
          /\ last_batch = 0 \/ len_results >= last_count
          /\ offset = PageSize * (requests - 1)
    /\ fo_pc = "loop" /\ requests > 0 =>
          /\ last_batch > 0
          /\ len_results < last_count
          /\ offset = PageSize * requests

\* a second page came back empty while the server reported more records
C9_Witness ==
    /\ fo_pc = "returned"
    /\ requests = 2
    /\ last_batch = 0
    /\ len_results = PageSize
    /\ last_count > PageSize

\* the loop is still asking after MaxRequests pages: the server keeps
\* reporting more than it has sent
C9_WitnessStillLooping ==
    /\ fo_pc = "loop"
    /\ requests = MaxRequests
    /\ len_results < last_count

----------------------------------------------------------------------------
\* C10: a cell is present when both its files exist.  The mosaic returned has
\* tile_h rows per distinct present latitude and tile_w columns per distinct
\* present longitude; the block at (number of present latitudes above the
\* cell's, number of present longitudes below the cell's) holds the cell's tile
\* when the cell is present and zeros when it is not
C10_MosaicLayout ==
    lm_pc = "returned" =>
        LET present == {c \in GridCells : c \in npy_exists /\ c \in scales_exists}
            lons == {c[1] : c \in present}
            lats == {c[2] : c \in present}
            row0(lat) == tile_h * Cardinality({x \in lats : x > lat})
            col0(lon) == tile_w * Cardinality({x \in lons : x < lon})
        IN  /\ tile_h = cache_shape[1] /\ tile_w = cache_shape[2]
            /\ mosaic_h = tile_h * Cardinality(lats)
            /\ mosaic_w = tile_w * Cardinality(lons)
            /\ DOMAIN mosaic = Pixels(mosaic_h, mosaic_w)
            /\ \A lon \in lons, lat \in lats :
                  \A r \in 0..(tile_h - 1), c \in 0..(tile_w - 1) :
                      mosaic[<<row0(lat) + r, col0(lon) + c>>] =
                          IF <<lon, lat>> \in present
                          THEN TileData(<<lon, lat>>, r, c)
                          ELSE ZeroVec

\* a mosaic of two rows and two columns of blocks with one block left at zero,
\* from a cache in which one cell has its data file but no scales file
C10_Witness ==
    /\ lm_pc = "returned"
    /\ Len(unique_lats) = 2 /\ Len(unique_lons) = 2
    /\ Cardinality(tiles) = 3
    /\ npy_exists \ scales_exists # {}
    /\ \E p \in DOMAIN mosaic : mosaic[p] = ZeroVec

(***************************************************************************)
(* C11: the neighbour count, run() lines 195-206                           *)
(***************************************************************************)

\* The samples the training set holds: the rows of X_pos and of X_neg.
TrainingSamples == len_valid_positives + len_X_neg

\* Line 201 has been executed: np.vstack returned and k was computed.
NeighboursComputed == len_X_train > 0

\* model.fit returned: the run went on to predict.
ModelFitted ==
    \/ run_pc \in {"predict", "mkdir", "tif", "cand", "occ", "complete"}
    \/ run_pc = "crashed" /\ failed_at \in {"mkdir", "tif", "cand", "occ"}

\* The train step (lines 195-206) has run, to the end or to a raise.
TrainStepDone == ModelFitted \/ (run_pc = "crashed" /\ failed_at = "train")

\* C11 as the specification states it: for a training set of n samples the
\* neighbour count is k = min(10, n div 2); a fitted model has 1 <= k <= 10
\* and k at most half of n; a computed k below 1 (n < 2) ends the run in a
\* fatal failure with no prediction and no output.
C11_NeighbourCount ==
    /\ NeighboursComputed =>
          n_neighbors = Min2(MaxK, TrainingSamples \div 2)
    /\ ModelFitted =>
          /\ 1 <= n_neighbors /\ n_neighbors <= MaxK
          /\ 2 * n_neighbors <= TrainingSamples
    /\ (NeighboursComputed /\ TrainingSamples < 2) =>
          /\ n_neighbors < 1
          /\ run_pc = "crashed" /\ failed_at = "train"
          /\ NoOutput

\* C11, the part the code keeps: whenever a model is fitted, k is
\* min(10, n div 2) of the n training samples, 1 <= k <= 10, and k is at
\* most half of n.
C11_FittedNeighbourBounds ==
    ModelFitted =>
       /\ n_neighbors = Min2(MaxK, TrainingSamples \div 2)
       /\ 1 <= n_neighbors /\ n_neighbors <= MaxK
       /\ 2 * n_neighbors <= TrainingSamples

\* C11, what the code does with a training set below two samples: no k < 1
\* is ever computed; the run ends at the train step by an uncaught
\* ValueError, nothing is logged, and there is no output.
C11_TooSmallEndsInValueError ==
    /\ NeighboursComputed => n_neighbors >= 1
    /\ (TrainStepDone /\ TrainingSamples < 2) =>
          /\ run_pc = "crashed" /\ failed_at = "train"
          /\ exception = "ValueError"
          /\ errors_logged = <<>>
          /\ NoOutput

\* A fitted model whose k is capped at 10 by a training set of more than
\* twenty samples.
C11_WitnessCapped ==
    /\ run_pc = "complete"
    /\ TrainingSamples > 2 * MaxK
    /\ n_neighbors = MaxK

\* A fitted model whose k is half of a small training set.
C11_WitnessHalf ==
    /\ ModelFitted
    /\ TrainingSamples = 3
    /\ n_neighbors = 1

\* No sample at all: X_train has two empty rows, k = 1 was computed, and
\* fit() raised.
C11_WitnessEmptyTrainingSet ==
    /\ run_pc = "crashed" /\ failed_at = "train"
    /\ TrainingSamples = 0
    /\ len_X_train = 2
    /\ n_neighbors = 1

\* Samples of one class only: np.vstack raised before k was computed.
C11_WitnessOneClass ==
    /\ run_pc = "crashed" /\ failed_at = "train"
    /\ len_valid_positives > 0 /\ len_X_neg = 0
    /\ ~NeighboursComputed

====
